---- MODULE Spec2Model ----
(***************************************************************************)
(* The response cache of the haveibeenpwned-ts client: cache-key           *)
(* derivation, the on-disk cache store (CacheManager), the read-through    *)
(* request facade (HaveIBeenPwned.request) and the domain-query protocol   *)
(* (Breached.domain).                                                      *)
(*                                                                         *)
(* The repository holds two copies of the cache store and of the client:   *)
(*   impl = "A" : src/unnamed/part_002 (cache) + src/unnamed/part_003      *)
(*   impl = "B" : src/unnamed/part_009 (cache) + src/unnamed/part_008      *)
(* They differ in isCacheFresh, in get (stat before read) and in the       *)
(* constructor (B starts a background latest-breach probe).  The variable  *)
(* impl is fixed by Init and selects the copy every operation follows.     *)
(***************************************************************************)
EXTENDS Integers, Sequences, FiniteSets, TLC

VARIABLES
    impl,                 \* which copy of the sources runs: "A" or "B"
    enabled,              \* CacheManager.config.enabled
    ttl,                  \* CacheManager.config.ttl (Undefined or a number)
    latestBreachDate,     \* CacheManager.latestBreachDate (Null or a date)
    files,                \* the cache directory: cache key -> file content
    now,                  \* Date.now()
    lastKnownBreachDate,  \* Breached.lastKnownBreachDate (Null or a date)
    pending,              \* checkLatestBreach calls in flight
    calls,                \* calls the client has served so far
    ev,                   \* the last completed call: arguments, inputs, result
    reqA, reqB,           \* two requests handed to createCacheKey
    keyA, keyB,           \* the keys derived for them (NoKey before)
    disk,                 \* one entry file, chunk by chunk, under concurrent calls
    writers,              \* the set calls in flight on that file
    reader,               \* the get call in flight on that file
    newest,               \* the latest-breach probe started last: done, outcome
    upstream,             \* the AddedDate the API reports, where a run fixes it
    dir,                  \* a cachedir call: platform, environment, id, result
    older                 \* history: the keys whose entry was written before
                          \* the tracker took its present date

vars == <<impl, enabled, ttl, latestBreachDate, files, now,
          lastKnownBreachDate, pending, calls, ev, reqA, reqB, keyA, keyB,
          disk, writers, reader, newest, upstream, dir, older>>

storeVars == <<impl, enabled, ttl, latestBreachDate, files, now,
               lastKnownBreachDate, pending, calls, ev>>

keyVars == <<reqA, reqB, keyA, keyB>>

ioVars == <<disk, writers, reader>>

extVars == <<newest, upstream, dir, older>>

(***************************************************************************)
(* Bounds                                                                  *)
(***************************************************************************)
MaxParams == 2      \* entries of a params object
MaxDate == 2        \* breach dates are 1..MaxDate (ISO strings, in order)
MaxTime == 1        \* the clock runs 0..MaxTime
MaxTtl == 1         \* configured ttl values are 0..MaxTtl
MaxPending == 2     \* background latest-breach probes in flight
MaxCalls == 2       \* request, domain and configureCaching calls of a run
MaxChunks == 2      \* write/read system calls an entry file takes
MaxTracked == 3     \* domain calls of a run that follows two domains

\* ttl?: number -- the value of an omitted ttl (0 is a number a caller can pass)
NoTtl == -1
\* string | null -- the value of an absent date; dates are 1..MaxDate
NullDate == 0

(***************************************************************************)
(* Strings are sequences of characters.  CharCode gives the UTF-16 code    *)
(* unit, the order Array.prototype.sort() compares by.                     *)
(***************************************************************************)
CharCode(c) ==
    CASE c = "1" -> 49
      [] c = "=" -> 61
      [] c = "a" -> 97
      [] c = "b" -> 98
      [] c = "c" -> 99
      [] c = "d" -> 100
      [] c = "e" -> 101
      [] c = "f" -> 102
      [] c = "l" -> 108
      [] c = "r" -> 114
      [] c = "s" -> 115
      [] c = "t" -> 116
      [] c = "u" -> 117

RECURSIVE StrLess(_, _)
StrLess(s, t) ==
    IF t = <<>> THEN FALSE
    ELSE IF s = <<>> THEN TRUE
    ELSE IF CharCode(Head(s)) < CharCode(Head(t)) THEN TRUE
    ELSE IF CharCode(Head(s)) > CharCode(Head(t)) THEN FALSE
    ELSE StrLess(Tail(s), Tail(t))

(***************************************************************************)
(* Parameter values (Record<string, string | boolean | number | undefined>)*)
(* are tagged: a string, a boolean or undefined.  ToStr is String(value).  *)
(***************************************************************************)
Undef == [t |-> "undefined", b |-> FALSE, s |-> <<>>]
Str(s) == [t |-> "string", b |-> FALSE, s |-> s]
Bool(b) == [t |-> "boolean", b |-> b, s |-> <<>>]

ToStr(v) ==
    IF v.t = "boolean"
    THEN (IF v.b THEN <<"t", "r", "u", "e">> ELSE <<"f", "a", "l", "s", "e">>)
    ELSE v.s

(***************************************************************************)
(* A params object is a sequence of <<name, value>> pairs in insertion     *)
(* order, names distinct (kv); given = FALSE is a call without params.     *)
(***************************************************************************)
NoParams == [given |-> FALSE, kv |-> <<>>]
Params(kv) == [given |-> TRUE, kv |-> kv]

ObjectKeys(params) == [i \in 1..Len(params.kv) |-> params.kv[i][1]]

ValueOf(params, name) ==
    LET i == CHOOSE j \in 1..Len(params.kv) : params.kv[j][1] = name
    IN  params.kv[i][2]

RECURSIVE SortAsc(_)
SortAsc(names) ==
    IF names = <<>> THEN <<>>
    ELSE LET m == CHOOSE i \in 1..Len(names) :
                    \A j \in 1..Len(names) : ~StrLess(names[j], names[i])
             rest == [k \in 1..(Len(names) - 1) |->
                        IF k < m THEN names[k] ELSE names[k + 1]]
         IN  <<names[m]>> \o SortAsc(rest)

\* A plausible slip: the keys are hashed in insertion order.
SortedKeysUnsorted(params) == ObjectKeys(params)

SortedKeys(params) == SortAsc(ObjectKeys(params))

RECURSIVE HashUpdates(_, _, _)
HashUpdates(acc, params, names) ==
    IF names = <<>> THEN acc
    ELSE LET key == Head(names)
             value == ValueOf(params, key)
         IN  IF value # Undef
             THEN HashUpdates(acc \o key \o <<"=">> \o ToStr(value),
                              params, Tail(names))
             ELSE HashUpdates(acc, params, Tail(names))

(***************************************************************************)
(* createCacheKey: hash.update(endpoint), then hash.update("name=value")   *)
(* for every defined value in sorted-name order.  Successive updates       *)
(* append to one byte stream; the SHA-256 digest is taken as injective on  *)
(* that stream, so the stream itself stands for the key.                   *)
(***************************************************************************)
createCacheKey(endpoint, params) ==
    IF ~params.given THEN endpoint
    ELSE HashUpdates(endpoint, params, SortedKeys(params))

(***************************************************************************)
(* Key derivation on its own: two requests are drawn, then their keys are  *)
(* derived.                                                                *)
(***************************************************************************)
Endpoints == {<<"e">>, <<"f">>}
Names == {<<"a">>, <<"b">>, <<"c">>}
Values == {Undef, Str(<<"1">>), Str(<<"1", "b", "=", "1">>), Bool(TRUE)}

RECURSIVE ParamSeqs(_)
ParamSeqs(n) ==
    IF n = 0 THEN {<<>>}
    ELSE LET shorter == ParamSeqs(n - 1)
         IN  shorter \cup
             {Append(p, <<nm, v>>) :
                p \in {q \in shorter : Len(q) = n - 1},
                nm \in Names, v \in Values}

DistinctNames(p) ==
    \A i, j \in 1..Len(p) : i # j => p[i][1] # p[j][1]

ParamObjects ==
    {Params(p) : p \in {q \in ParamSeqs(MaxParams) : DistinctNames(q)}}
        \cup {NoParams}

Requests == [endpoint : Endpoints, params : ParamObjects]

NoKey == <<"?">>

\* The (name, value) pairs a request defines.
Defined(r) ==
    {r.params.kv[i] :
        i \in {j \in 1..Len(r.params.kv) : r.params.kv[j][2] # Undef}}

(***************************************************************************)
(* Payloads.  A live response or a cached value is null, a body of the     *)
(* breacheddomain endpoint, or a BreachModel whose AddedDate is a date or  *)
(* missing (NullDate).  UndefinedValue is what reading a missing property  *)
(* yields.  JSON.stringify followed by JSON.parse gives these values back, *)
(* except that a property holding undefined is dropped from the document.  *)
(***************************************************************************)
NullValue == [kind |-> "null", date |-> NullDate]
UndefinedValue == [kind |-> "undefined", date |-> NullDate]
DomainBody(b) == [kind |-> b, date |-> NullDate]
BreachModel(d) == [kind |-> "breach", date |-> d]

Dates == 1..MaxDate
DomainBodies == {DomainBody("P1"), DomainBody("P2")}
BreachModels == {BreachModel(d) : d \in Dates \cup {NullDate}}

\* latestBreach?.AddedDate as a truthy value
AddedDate(v) == IF v.kind = "breach" THEN v.date ELSE NullDate

(***************************************************************************)
(* A file of the cache directory.  kind "none": no such file; "garbage":   *)
(* bytes JSON.parse rejects (a truncated or overwritten document); "json": *)
(* a parsed object with an optional data property and an optional metadata *)
(* property {timestamp, latestBreachAddedDate?}.                           *)
(***************************************************************************)
NoFile ==
    [kind |-> "none", hasData |-> FALSE, hasMeta |-> FALSE,
     data |-> NullValue, timestamp |-> 0, tag |-> NullDate]

Garbage ==
    [kind |-> "garbage", hasData |-> FALSE, hasMeta |-> FALSE,
     data |-> NullValue, timestamp |-> 0, tag |-> NullDate]

\* JSON.stringify({data, metadata: {timestamp, latestBreachAddedDate}})
CacheItem(data, timestamp, tag) ==
    [kind |-> "json", hasData |-> (data # UndefinedValue), hasMeta |-> TRUE,
     data |-> IF data = UndefinedValue THEN NullValue ELSE data,
     timestamp |-> timestamp, tag |-> tag]

\* documents that parse as JSON but lack metadata, data, or both
Malformed ==
    {[kind |-> "json", hasData |-> TRUE, hasMeta |-> FALSE,
      data |-> DomainBody("P1"), timestamp |-> 0, tag |-> NullDate],
     [kind |-> "json", hasData |-> FALSE, hasMeta |-> TRUE,
      data |-> NullValue, timestamp |-> 0, tag |-> NullDate],
     [kind |-> "json", hasData |-> FALSE, hasMeta |-> FALSE,
      data |-> NullValue, timestamp |-> 0, tag |-> NullDate]}

(***************************************************************************)
(* isCacheFresh(metadata): "true", "false", or "throw" when a property of  *)
(* an undefined metadata is read.  The clock unit is 24 hours.             *)
(***************************************************************************)
DefaultMaxAge == 1     \* 24 * 60 * 60 * 1000 ms

Truthy(n) == n # NoTtl /\ n # 0

isCacheFreshA(f, cfgTtl, signal, clock) ==
    IF Truthy(cfgTtl) /\ ~f.hasMeta THEN "throw"
    ELSE IF Truthy(cfgTtl) /\ clock - f.timestamp > cfgTtl THEN "false"
    ELSE IF signal = NullDate THEN "true"
    ELSE IF ~f.hasMeta THEN "throw"
    ELSE IF f.tag # NullDate
    THEN (IF signal <= f.tag THEN "true" ELSE "false")
    ELSE "true"

isCacheFreshB(f, cfgTtl, signal, clock) ==
    IF Truthy(cfgTtl)
    THEN (IF ~f.hasMeta THEN "throw"
          ELSE IF clock - f.timestamp < cfgTtl THEN "true" ELSE "false")
    ELSE IF ~f.hasMeta THEN "throw"
    ELSE IF signal # NullDate /\ f.tag # NullDate
    THEN (IF f.tag >= signal THEN "true" ELSE "false")
    ELSE IF clock - f.timestamp < DefaultMaxAge THEN "true" ELSE "false"

\* A plausible slip: the entry is written without the freshness tag.
SetFilesNoTag(fs, key, data, wio) ==
    IF ~enabled THEN {fs}
    ELSE IF wio = "ok" THEN {[fs EXCEPT ![key] = CacheItem(data, now, NullDate)]}
    ELSE IF wio = "mkdir" THEN {fs}
    ELSE {fs, [fs EXCEPT ![key] = Garbage]}

\* A plausible slip: an entry tagged with exactly the signal counts as stale.
isCacheFreshStrict(f) ==
    IF f.hasMeta /\ f.tag # NullDate /\ f.tag = latestBreachDate THEN "false"
    ELSE IF impl = "A" THEN isCacheFreshA(f, ttl, latestBreachDate, now)
    ELSE isCacheFreshB(f, ttl, latestBreachDate, now)

isCacheFresh(f) ==
    IF impl = "A" THEN isCacheFreshA(f, ttl, latestBreachDate, now)
    ELSE isCacheFreshB(f, ttl, latestBreachDate, now)

\* A plausible slip: the enabled switch is not looked at.
IsEnabledAlways == TRUE

IsEnabled == enabled

(***************************************************************************)
(* CacheManager.get.  io is the outcome of the file system calls (stat and *)
(* readFile in copy A, readFile in copy B): "ok" or "error" (EACCES, EIO). *)
(* Every exception inside the try block is caught and becomes null.        *)
(***************************************************************************)
GetResult(fs, key, io) ==
    LET f == fs[key]
    IN  IF ~IsEnabled THEN NullValue
        ELSE IF io # "ok" \/ f.kind # "json" THEN NullValue
        ELSE IF isCacheFresh(f) # "true" THEN NullValue
        ELSE IF f.hasData THEN f.data
        ELSE UndefinedValue

(***************************************************************************)
(* CacheManager.set.  wio is the outcome of mkdir and writeFile: "ok",     *)
(* "mkdir" (mkdir rejects) or "write" (writeFile rejects).  writeFile      *)
(* opens the file with flag 'w', so a write that fails half way may leave  *)
(* the old file (the open failed) or a truncated one.  The catch block     *)
(* swallows every error.  The result is the set of possible directories.   *)
(***************************************************************************)
SetFiles(fs, key, data, wio) ==
    IF ~IsEnabled THEN {fs}
    ELSE IF wio = "ok"
    THEN {[fs EXCEPT ![key] = CacheItem(data, now, latestBreachDate)]}
    ELSE IF wio = "mkdir" THEN {fs}
    ELSE {fs, [fs EXCEPT ![key] = Garbage]}

ReadOutcomes == {"ok", "error"}
WriteOutcomes == {"ok", "mkdir", "write"}

(***************************************************************************)
(* The requests of the client that the model follows, and their keys.      *)
(* encodeURIComponent leaves the (alphanumeric) domain names unchanged.    *)
(***************************************************************************)
Domains == {<<"a">>}

LatestPath == <<"l">>
DomainPath(d) == <<"d">> \o d

LatestKey == createCacheKey(LatestPath, NoParams)
DomainKey(d) == createCacheKey(DomainPath(d), NoParams)

Keys == {LatestKey} \cup {DomainKey(d) : d \in Domains}
StoreKeys == {DomainKey(d) : d \in Domains}

\* a second domain, for the runs that query two domains through one Breached
OtherDomain == <<"b">>
AllDomains == Domains \cup {OtherDomain}
AllKeys == Keys \cup {DomainKey(d) : d \in AllDomains}

(***************************************************************************)
(* ev: the last completed call.                                            *)
(*   op       : the call;  prev : the call before it (recorded by get)     *)
(*   key      : the cache key it addressed                                 *)
(*   data     : the data argument (set) or the live response (request)     *)
(*   io       : the file system outcome it met                             *)
(*   ret      : the value returned, or the error it rejected with when     *)
(*              raised                                                     *)
(*   pre      : the data of the entry stored under key before the call     *)
(*              (null when there was none)                                 *)
(*   force, probe, known0, live : see Breached.domain below; for           *)
(*              configureCaching and checkLatestBreach known0 is the       *)
(*              signal of the store before the call                        *)
(*   log      : what the call wrote with console.log ("-" : nothing)       *)
(***************************************************************************)
NoProbe == [kind |-> "none", date |-> NullDate]
ErrorResponse == [kind |-> "error", date |-> NullDate]

Idle(op) ==
    [op |-> op, prev |-> "-", key |-> <<>>, data |-> NullValue, io |-> "ok",
     ret |-> NullValue, raised |-> FALSE, pre |-> NullValue,
     force |-> FALSE, probe |-> NoProbe, known0 |-> NullDate, live |-> 0,
     log |-> "-"]

InitEv ==
    [op |-> "new", prev |-> "-", key |-> <<>>, data |-> NullValue,
     io |-> "ok", ret |-> NullValue, raised |-> FALSE, pre |-> NullValue,
     force |-> FALSE, probe |-> NoProbe, known0 |-> NullDate, live |-> 0,
     log |-> "-"]

StoredData(f) == IF f.kind = "json" /\ f.hasData THEN f.data ELSE NullValue

TtlValues == {NoTtl} \cup (0..MaxTtl)

(***************************************************************************)
(* The CacheManager used directly (its public methods), over a directory   *)
(* that outlives the instance.                                             *)
(***************************************************************************)
\* a chunk of an entry file: part p of the document doc wrote
Chunk(doc, part) == [doc |-> doc, part |-> part]

\* bytes a write past the end of the file leaves behind it
Hole == Chunk(0, 0)

Document(doc) == [p \in 1..MaxChunks |-> Chunk(doc, p)]

NoDisk == [exists |-> FALSE, bytes |-> <<>>]

IdleWriter == [pc |-> "idle", pos |-> 1]
IdleReader == [pc |-> "idle", pos |-> 1, buf |-> <<>>, ret |-> <<>>]

Writers == {1, 2}

\* no probe has been started yet
NoNewest == [done |-> TRUE, outcome |-> NullDate]

\* a probe has been started and its live call has not answered
Started == [done |-> FALSE, outcome |-> NullDate]

(***************************************************************************)
(* cachedir(id).  A path is the sequence of its segments, "/" first when   *)
(* it is absolute, so that join is concatenation (the ids that pass the    *)
(* test hold no separator and no dot).  An environment variable is unset,  *)
(* or set to a value; the value of the empty string is the empty path.     *)
(***************************************************************************)
Join(a, b) == a \o b

Unset == [set |-> FALSE, value |-> <<>>]
SetTo(path) == [set |-> TRUE, value |-> path]

\* process.env.X || fallback: undefined and "" are both falsy
OrElse(env, fallback) ==
    IF env.set /\ env.value # <<>> THEN env.value ELSE fallback

\* A plausible slip: XDG_CACHE_HOME is not looked at.
posixHomeOnly(xdgCacheHome, home, id) == Join(Join(home, <<".cache">>), <<id>>)

posix(xdgCacheHome, home, id) ==
    Join(OrElse(xdgCacheHome, Join(home, <<".cache">>)), <<id>>)

darwin(home, id) == Join(home, <<"Library", "Caches", id>>)

win32(localAppData, home, id) ==
    Join(OrElse(localAppData, Join(home, <<"AppData", "Local">>)),
         <<id, "Cache">>)

\* the switch on platform(): the platforms listed for posix, and the default
implementation(platform) ==
    IF platform = "darwin" THEN "darwin"
    ELSE IF platform = "win32" THEN "win32"
    ELSE "posix"

\* the characters of the ids the model calls cachedir with
IdChars ==
    [i \in {"myapp", "my-app2", "", "my app", "a/b"} |->
        CASE i = "myapp" -> <<"m", "y", "a", "p", "p">>
          [] i = "my-app2" -> <<"m", "y", "-", "a", "p", "p", "2">>
          [] i = "" -> <<>>
          [] i = "my app" -> <<"m", "y", " ", "a", "p", "p">>
          [] i = "a/b" -> <<"a", "/", "b">>]

Ids == DOMAIN IdChars

\* the characters /[^0-9a-zA-Z-]/ does not match, among those of the ids
IdCharacters == {"m", "y", "a", "p", "b", "2", "-"}

\* id.length === 0, or the regular expression matches: cachedir throws
InvalidId(id) ==
    \/ Len(IdChars[id]) = 0
    \/ \E n \in 1..Len(IdChars[id]) : IdChars[id][n] \notin IdCharacters

cachedir(platform, xdgCacheHome, localAppData, home, id) ==
    IF InvalidId(id) THEN [raised |-> TRUE, path |-> <<>>]
    ELSE [raised |-> FALSE,
          path |-> CASE implementation(platform) = "darwin" -> darwin(home, id)
                     [] implementation(platform) = "win32" ->
                            win32(localAppData, home, id)
                     [] OTHER -> posix(xdgCacheHome, home, id)]

Platforms == {"darwin", "win32", "linux", "freebsd", "cygwin", "haiku"}
Homes == {<<"/", "home", "u">>, <<"/", "Users", "u">>}
EnvValues == {Unset, SetTo(<<>>), SetTo(<<"/", "x">>)}

\* no cachedir call has been made
NoDir == [platform |-> "-", home |-> <<>>, localAppData |-> Unset,
          xdgCacheHome |-> Unset, id |-> "", path |-> <<>>, raised |-> FALSE]

InitExt0 ==
    /\ upstream = NullDate
    /\ dir = NoDir
    /\ older = {}

InitIo0 ==
    /\ disk = NoDisk
    /\ writers = [w \in Writers |-> IdleWriter]
    /\ reader = IdleReader

InitReq0 ==
    /\ reqA = [endpoint |-> <<"e">>, params |-> NoParams]
    /\ reqB = [endpoint |-> <<"e">>, params |-> NoParams]
    /\ keyA = NoKey
    /\ keyB = NoKey
    /\ InitIo0

InitKey0 ==
    /\ InitReq0
    /\ InitExt0

InitStore ==
    /\ impl \in {"A", "B"}
    /\ enabled \in BOOLEAN
    /\ ttl \in TtlValues
    /\ latestBreachDate = NullDate
    /\ files = [k \in AllKeys |-> NoFile]
    /\ now = 0
    /\ lastKnownBreachDate = NullDate
    /\ pending = 0
    /\ calls = 0
    /\ ev = InitEv
    /\ newest = NoNewest
    /\ InitKey0

\* new CacheManager(config) over the same directory
Construct(cfgEnabled, cfgTtl) ==
    /\ enabled' = cfgEnabled
    /\ ttl' = cfgTtl
    /\ latestBreachDate' = NullDate
    /\ ev' = Idle("new")
    /\ UNCHANGED <<impl, files, now, lastKnownBreachDate, pending, calls, keyVars, ioVars, extVars>>

Get(key, io) ==
    /\ ev' = [Idle("get") EXCEPT !.prev = ev.op, !.key = key, !.io = io,
                                 !.ret = GetResult(files, key, io)]
    /\ UNCHANGED <<impl, enabled, ttl, latestBreachDate, files, now,
                   lastKnownBreachDate, pending, calls, keyVars, ioVars, extVars>>

Set(key, data, wio) ==
    /\ files' \in SetFiles(files, key, data, wio)
    /\ ev' = [Idle("set") EXCEPT !.key = key, !.data = data, !.io = wio]
    /\ UNCHANGED <<impl, enabled, ttl, latestBreachDate, now,
                   lastKnownBreachDate, pending, calls, keyVars, ioVars, extVars>>

SetLatestBreachDate(date) ==
    /\ latestBreachDate' = date
    /\ ev' = Idle("setLatestBreachDate")
    /\ UNCHANGED <<impl, enabled, ttl, files, now, lastKnownBreachDate, pending, calls, keyVars, ioVars, extVars>>

\* copy A: an empty body; copy B: console.log of the directory path
ClearCache ==
    /\ ev' = [Idle("clearCache") EXCEPT
                 !.log = IF impl = "B" THEN "cacheDir" ELSE "-"]
    /\ UNCHANGED <<impl, enabled, ttl, latestBreachDate, files, now,
                   lastKnownBreachDate, pending, calls, keyVars, ioVars, extVars>>

\* Date.now() advances
Tick ==
    /\ now < MaxTime
    /\ now' = now + 1
    /\ ev' = Idle("tick")
    /\ UNCHANGED <<impl, enabled, ttl, latestBreachDate, files,
                   lastKnownBreachDate, pending, calls, keyVars, ioVars, extVars>>

\* a stored entry is corrupted by hand
Corrupt(key, content) ==
    /\ files[key].kind # "none"
    /\ files' = [files EXCEPT ![key] = content]
    /\ ev' = Idle("corrupt")
    /\ UNCHANGED <<impl, enabled, ttl, latestBreachDate, now,
                   lastKnownBreachDate, pending, calls, keyVars, ioVars, extVars>>

StoreData == {NullValue, DomainBody("P1")}

NextStore ==
    \/ \E e \in BOOLEAN, t \in TtlValues : Construct(e, t)
    \/ \E k \in StoreKeys, io \in ReadOutcomes : Get(k, io)
    \/ \E k \in StoreKeys, d \in StoreData, wio \in WriteOutcomes : Set(k, d, wio)
    \/ \E d \in Dates \cup {NullDate} : SetLatestBreachDate(d)
    \/ ClearCache
    \/ Tick
    \/ \E k \in StoreKeys, c \in Malformed \cup {Garbage} : Corrupt(k, c)

SpecStore == InitStore /\ [][NextStore]_vars

(***************************************************************************)
(* Claims about the store                                                  *)
(***************************************************************************)
\* the file a completed get looked at: get changes neither it nor the clock
GotFile == files[ev.key]

WellFormed(f) == f.kind = "json" /\ f.hasMeta /\ f.hasData

ReadableGet == ev.op = "get" /\ ev.io = "ok" /\ enabled /\ WellFormed(GotFile)

\* C1: with a (positive) ttl configured, an entry whose freshnessTag is older
\* than the store's signal is still returned by get while its age is below
\* the ttl: the breach-date comparison is not consulted.
C1_TtlPrecedence ==
    (/\ ReadableGet
     /\ ttl # NoTtl /\ ttl > 0
     /\ GotFile.tag # NullDate /\ latestBreachDate # NullDate
     /\ GotFile.tag < latestBreachDate
     /\ now - GotFile.timestamp < ttl)
        => ev.ret = GotFile.data

\* C2: with no ttl configured and both the signal and the entry's tag present,
\* get returns the payload iff tag >= signal, and absent otherwise; so the get
\* that follows a setLatestBreachDate with a newer date returns absent.
C2_BreachDateInvalidation ==
    (/\ ReadableGet
     /\ ttl = NoTtl
     /\ GotFile.data # NullValue
     /\ GotFile.tag # NullDate /\ latestBreachDate # NullDate)
        => /\ (ev.ret = GotFile.data) <=> (GotFile.tag >= latestBreachDate)
           /\ (ev.ret = NullValue) <=> (GotFile.tag < latestBreachDate)

\* an entry written under signal D1, then setLatestBreachDate(D2), D2 > D1,
\* then get with no time passed: absent
C2_Witness ==
    /\ ReadableGet /\ ev.prev = "setLatestBreachDate"
    /\ ttl = NoTtl
    /\ GotFile.data # NullValue
    /\ GotFile.tag # NullDate /\ GotFile.tag < latestBreachDate
    /\ GotFile.timestamp = now
    /\ ev.ret = NullValue

\* C6: while the store is disabled, get returns absent and no call of set, get
\* or setLatestBreachDate creates or changes a stored entry.
C6_DisabledPassThrough ==
    [][(~enabled /\ ev'.op \in {"get", "set", "setLatestBreachDate"})
        => /\ files' = files
           /\ (ev'.op = "get" => ev'.ret = NullValue)]_vars

\* a disabled store over a directory that holds a fresh entry for the key:
\* set, then get, returns absent
C6_Witness ==
    /\ ~enabled
    /\ ev.op = "get" /\ ev.prev = "set" /\ ev.io = "ok"
    /\ WellFormed(GotFile) /\ GotFile.data # NullValue
    /\ GotFile.timestamp = now /\ GotFile.tag = latestBreachDate
    /\ ev.ret = NullValue

\* C7: get never raises, and returns absent for a key never written, for an
\* entry whose content is corrupt (invalid JSON, or JSON lacking data or
\* metadata) and for any I/O error while reading.
C7_ReadFailureIsMiss ==
    (/\ ev.op = "get"
     /\ (ev.io # "ok" \/ ~WellFormed(GotFile)))
        => ev.ret = NullValue /\ ~ev.raised

\* the age of the entry a completed get looked at
GotAge == now - GotFile.timestamp

\* no ttl configured, and the signal or the entry's tag is absent
FallbackCase ==
    /\ ReadableGet
    /\ ttl = NoTtl
    /\ GotFile.data # NullValue
    /\ (latestBreachDate = NullDate \/ GotFile.tag = NullDate)

\* C11: with no ttl configured and the signal or the entry's tag absent, get
\* returns the entry whatever its age.
C11_FallbackFresh == FallbackCase => ev.ret = GotFile.data

\* C12: with no ttl configured and the signal or the entry's tag absent, get
\* returns the entry while its age is below 24 hours and absent afterwards.
C12_DefaultExpiry ==
    FallbackCase
        => /\ GotAge < DefaultMaxAge => ev.ret = GotFile.data
           /\ GotAge >= DefaultMaxAge => ev.ret = NullValue

\* C13: for every configured ttl (0 included) and every age, get returns the
\* entry iff its age is below the ttl; age = ttl is stale.
C13_TtlExact ==
    (/\ ReadableGet
     /\ ttl # NoTtl
     /\ GotFile.data # NullValue)
        => /\ GotAge < ttl => ev.ret = GotFile.data
           /\ GotAge >= ttl => ev.ret = NullValue

\* C21: entries are never deleted by the running process: no operation,
\* clearCache included, removes or modifies a stored entry (editing a file by
\* hand is not an operation of the process); after clearCache every get
\* returns exactly what it returned before the call, and clearCache reports
\* the cache directory path.
C21_NoDeletion ==
    [][/\ ev'.op # "corrupt" =>
            \A k \in StoreKeys : files[k].kind # "none" => files'[k] = files[k]
       /\ ev'.op = "clearCache" =>
            /\ files' = files
            /\ \A k \in StoreKeys, io \in ReadOutcomes :
                   GetResult(files, k, io)' = GetResult(files, k, io)
            /\ ev'.log = "cacheDir"]_vars

\* C24: an entry written by set carries as freshness tag exactly the signal
\* the store had at the moment of that set (absent if the signal was absent),
\* and setLatestBreachDate changes only the in-memory signal: every stored
\* file, with its data, timestamp and tag, stays as it was.
C24_TagAtWriteTime ==
    [][/\ (ev'.op = "set" /\ enabled /\ ev'.io = "ok") =>
            /\ files'[ev'.key].kind = "json"
            /\ files'[ev'.key].hasMeta
            /\ files'[ev'.key].tag = latestBreachDate
            /\ files'[ev'.key].data = ev'.data
            /\ files'[ev'.key].timestamp = now
       /\ ev'.op = "setLatestBreachDate" => files' = files]_vars

\* the signal was moved after an entry was written under another tag
C24_Witness ==
    /\ ev.op = "setLatestBreachDate"
    /\ latestBreachDate # NullDate
    /\ \E k \in StoreKeys :
           /\ WellFormed(files[k])
           /\ files[k].tag # NullDate
           /\ files[k].tag # latestBreachDate

(***************************************************************************)
(* Key derivation on its own: two requests are drawn, then both keys are   *)
(* derived, as get and set derive them.                                    *)
(***************************************************************************)
InitKey ==
    /\ reqA \in Requests
    /\ reqB \in Requests
    /\ keyA = NoKey
    /\ keyB = NoKey
    /\ impl = "A"
    /\ enabled = TRUE
    /\ ttl = NoTtl
    /\ latestBreachDate = NullDate
    /\ files = [k \in AllKeys |-> NoFile]
    /\ now = 0
    /\ lastKnownBreachDate = NullDate
    /\ pending = 0
    /\ calls = 0
    /\ ev = InitEv
    /\ newest = NoNewest
    /\ InitIo0
    /\ InitExt0

DeriveKeys ==
    /\ keyA = NoKey
    /\ keyA' = createCacheKey(reqA.endpoint, reqA.params)
    /\ keyB' = createCacheKey(reqB.endpoint, reqB.params)
    /\ UNCHANGED <<reqA, reqB, storeVars, ioVars, extVars>>

NextKey == DeriveKeys

SpecKey == InitKey /\ [][NextKey]_vars

Derived == keyA # NoKey

\* C9: the key is a function of the endpoint and of the set of (name, value)
\* pairs whose value is defined: requests that agree on both get the same key,
\* whatever the insertion order and whichever parameters are set to undefined
\* or left out (or no params object is passed at all).
C9_KeyCanonical ==
    (/\ Derived
     /\ reqA.endpoint = reqB.endpoint
     /\ Defined(reqA) = Defined(reqB))
        => keyA = keyB

\* the same two defined parameters inserted in opposite orders, one request
\* carrying a third parameter set to undefined
C9_Witness ==
    /\ Derived
    /\ reqA.endpoint = reqB.endpoint
    /\ Defined(reqA) = Defined(reqB)
    /\ Cardinality(Defined(reqA)) = 2
    /\ reqA.params.kv # reqB.params.kv
    /\ reqA.params.kv[1][1] = reqB.params.kv[2][1]
    /\ reqA.params.kv[1][2] # Undef
    /\ keyA = keyB

\* an explicitly undefined parameter against its omission
C9_WitnessOmission ==
    /\ Derived
    /\ Len(reqA.params.kv) = Len(reqB.params.kv) + 1
    /\ Defined(reqA) = Defined(reqB)
    /\ Defined(reqA) # {}
    /\ keyA = keyB

\* C10: two requests that differ in the endpoint, in the value of a defined
\* parameter, or in which parameters are defined, get different keys (the
\* byte stream fed to the digest differs).
C10_KeyDiscrimination ==
    (/\ Derived
     /\ (reqA.endpoint # reqB.endpoint \/ Defined(reqA) # Defined(reqB)))
        => keyA # keyB

(***************************************************************************)
(* The client.  A live call (requestNoCache) answers with a payload, with  *)
(* null (HTTP 404, or an empty body) or rejects (any other non-2xx status, *)
(* a network failure): its answer is an input of the call.                 *)
(***************************************************************************)
LiveResponses(key) ==
    IF key = LatestKey
    THEN BreachModels \cup {NullValue, ErrorResponse}
    ELSE DomainBodies \cup {NullValue, ErrorResponse}

Outcome(fs, ret, raised, live, resp, wio) ==
    [files |-> fs, ret |-> ret, raised |-> raised, live |-> live,
     resp |-> resp, wio |-> wio]

\* A plausible slip: a failed cache write rejects the request.
WriteBackStrict(fs, key, resp, wios) ==
    UNION {{Outcome(f2, IF wio = "ok" THEN resp ELSE NullValue, wio # "ok",
                    1, resp, wio) :
                f2 \in SetFiles(fs, key, resp, wio)} : wio \in wios}

\* await this.cacheManager.set(...); return response
WriteBack(fs, key, resp, wios) ==
    UNION {{Outcome(f2, resp, FALSE, 1, resp, wio) :
                f2 \in SetFiles(fs, key, resp, wio)} : wio \in wios}

(***************************************************************************)
(* HaveIBeenPwned.request: the cached value unless get returns null, else  *)
(* one live call, whose non-null answer is written back.                   *)
(***************************************************************************)
\* A plausible slip: the cache is not read.
RequestOutcomesNoRead(fs, key, wios) ==
    UNION {IF resp = ErrorResponse
           THEN {Outcome(fs, resp, TRUE, 1, resp, "ok")}
           ELSE IF resp # NullValue
           THEN WriteBack(fs, key, resp, wios)
           ELSE {Outcome(fs, NullValue, FALSE, 1, resp, "ok")} :
           resp \in LiveResponses(key)}

\* A plausible slip: the live answer is returned but never written back.
RequestOutcomesNoWrite(fs, key, wios) ==
    LET cachedData == GetResult(fs, key, "ok")
    IN  IF cachedData # NullValue
        THEN {Outcome(fs, cachedData, FALSE, 0, NoProbe, "ok")}
        ELSE {Outcome(fs, resp, resp = ErrorResponse, 1, resp, "ok") :
                    resp \in LiveResponses(key)}

\* A plausible slip: a rejected live call is caught and answered with null.
RequestOutcomesSwallow(fs, key, wios) ==
    LET cachedData == GetResult(fs, key, "ok")
    IN  IF cachedData # NullValue
        THEN {Outcome(fs, cachedData, FALSE, 0, NoProbe, "ok")}
        ELSE UNION {IF resp = ErrorResponse
                    THEN {Outcome(fs, NullValue, FALSE, 1, resp, "ok")}
                    ELSE IF resp # NullValue
                    THEN WriteBack(fs, key, resp, wios)
                    ELSE {Outcome(fs, NullValue, FALSE, 1, resp, "ok")} :
                    resp \in LiveResponses(key)}

\* A plausible slip: the null check before the write-back is missing.
RequestOutcomesCacheNull(fs, key, wios) ==
    LET cachedData == GetResult(fs, key, "ok")
    IN  IF cachedData # NullValue
        THEN {Outcome(fs, cachedData, FALSE, 0, NoProbe, "ok")}
        ELSE UNION {IF resp = ErrorResponse
                    THEN {Outcome(fs, resp, TRUE, 1, resp, "ok")}
                    ELSE WriteBack(fs, key, resp, wios) :
                    resp \in LiveResponses(key)}

RequestOutcomes(fs, key, wios) ==
    LET cachedData == GetResult(fs, key, "ok")
    IN  IF cachedData # NullValue
        THEN {Outcome(fs, cachedData, FALSE, 0, NoProbe, "ok")}
        ELSE UNION {IF resp = ErrorResponse
                    THEN {Outcome(fs, resp, TRUE, 1, resp, "ok")}
                    ELSE IF resp # NullValue
                    THEN WriteBack(fs, key, resp, wios)
                    ELSE {Outcome(fs, NullValue, FALSE, 1, resp, "ok")} :
                    resp \in LiveResponses(key)}

Request(key, wios) ==
    \E o \in RequestOutcomes(files, key, wios) :
        /\ calls < MaxCalls
        /\ calls' = calls + 1
        /\ files' = o.files
        /\ ev' = [Idle("request") EXCEPT !.key = key,
                     !.pre = StoredData(files[key]),
                     !.data = o.resp, !.io = o.wio, !.ret = o.ret,
                     !.raised = o.raised, !.live = o.live]
        /\ UNCHANGED <<impl, enabled, ttl, latestBreachDate, now,
                       lastKnownBreachDate, pending, keyVars, ioVars, extVars>>

(***************************************************************************)
(* Breached.domain(domain, forceFresh).  An outcome adds the tracker's     *)
(* date after the call (known) and what breach.latest() returned (probe:   *)
(* NoProbe when it was not called, ErrorResponse when it rejected).        *)
(***************************************************************************)
DomainOutcome(o, known, probe) ==
    [files |-> o.files, ret |-> o.ret, raised |-> o.raised, live |-> o.live,
     resp |-> o.resp, wio |-> o.wio, known |-> known, probe |-> probe]

\* A plausible slip: the forced fetch goes through the cache-aware request.
FreshOutcomesCached(fs, key, wios) == RequestOutcomes(fs, key, wios)

\* A plausible slip: the forced fetch is returned without updateCache.
FreshOutcomesNoWrite(fs, key, wios) ==
    {Outcome(fs, resp, resp = ErrorResponse, 1, resp, "ok") :
        resp \in LiveResponses(key)}

\* requestNoCache, then updateCache(path, undefined, response)
FreshOutcomes(fs, key, wios) ==
    UNION {IF resp = ErrorResponse
           THEN {Outcome(fs, resp, TRUE, 1, resp, "ok")}
           ELSE WriteBack(fs, key, resp, wios) :
           resp \in LiveResponses(key)}

\* A plausible slip: the recorded date is never trusted.
UpToDateNever(known, added) == FALSE

\* A plausible slip: a recorded date equal to the probe's counts as older.
UpToDateStrict(known, added) == known # NullDate /\ known > added

\* this.lastKnownBreachDate && this.lastKnownBreachDate >= AddedDate
UpToDate(known, added) == known # NullDate /\ known >= added

DomainOutcomes(fs, d, forceFresh, wios) ==
    LET key == DomainKey(d)
        known == lastKnownBreachDate
    IN  IF forceFresh
        THEN {DomainOutcome(o, known, NoProbe) : o \in FreshOutcomes(fs, key, wios)}
        ELSE UNION {
            IF p.raised
            THEN {DomainOutcome(Outcome(p.files, p.ret, TRUE, 0, NoProbe, "ok"),
                                known, ErrorResponse)}
            ELSE IF AddedDate(p.ret) # NullDate
            THEN (IF UpToDate(known, AddedDate(p.ret))
                  THEN {DomainOutcome(o, known, p.ret) :
                            o \in RequestOutcomes(p.files, key, wios)}
                  ELSE {DomainOutcome(o, AddedDate(p.ret), p.ret) :
                            o \in FreshOutcomes(p.files, key, wios)})
            ELSE {DomainOutcome(o, known, p.ret) :
                            o \in FreshOutcomes(p.files, key, wios)} :
            p \in RequestOutcomes(fs, LatestKey, wios)}

DomainStep(d, forceFresh, wios) ==
    \E o \in DomainOutcomes(files, d, forceFresh, wios) :
        /\ files' = o.files
        /\ lastKnownBreachDate' = o.known
        /\ ev' = [Idle("domain") EXCEPT !.key = DomainKey(d),
                     !.pre = StoredData(files[DomainKey(d)]),
                     !.force = forceFresh,
                     !.probe = o.probe, !.known0 = lastKnownBreachDate,
                     !.data = o.resp, !.io = o.wio, !.ret = o.ret,
                     !.raised = o.raised, !.live = o.live]
        /\ UNCHANGED <<impl, enabled, ttl, latestBreachDate, now, pending,
                       keyVars, ioVars, newest, upstream, dir>>

\* a domain call of a run that bounds the number of its calls
Domain(d, forceFresh, wios) ==
    /\ calls < MaxCalls
    /\ calls' = calls + 1
    /\ DomainStep(d, forceFresh, wios)
    /\ UNCHANGED older

(***************************************************************************)
(* The constructor and configureCaching build a CacheManager (signal null) *)
(* and, configureCaching in both copies and the constructor in copy B,     *)
(* start checkLatestBreach without awaiting it.                            *)
(***************************************************************************)
Init ==
    /\ impl \in {"A", "B"}
    /\ enabled \in BOOLEAN
    /\ ttl \in TtlValues
    /\ latestBreachDate = NullDate
    /\ files = [k \in AllKeys |-> NoFile]
    /\ now = 0
    /\ lastKnownBreachDate = NullDate
    /\ pending = IF impl = "B" THEN 1 ELSE 0
    /\ newest = IF impl = "B" THEN Started ELSE NoNewest
    /\ calls = 0
    /\ ev = InitEv
    /\ InitKey0

\* configureCaching replaces the CacheManager and starts a new probe; the
\* configuration a run starts from is drawn in Init, so Next leaves it out.
ConfigureCaching(cfgEnabled, cfgTtl) ==
    /\ pending < MaxPending
    /\ calls < MaxCalls
    /\ calls' = calls + 1
    /\ enabled' = cfgEnabled
    /\ ttl' = cfgTtl
    /\ latestBreachDate' = NullDate
    /\ pending' = pending + 1
    /\ newest' = Started
    /\ ev' = [Idle("configureCaching") EXCEPT !.known0 = latestBreachDate]
    /\ UNCHANGED <<impl, files, now, lastKnownBreachDate, keyVars, ioVars,
                   upstream, dir, older>>

\* what checkLatestBreach hands to setLatestBreachDate: the AddedDate of the
\* answer, null when the answer has none or the live call failed
ProbeSignalKeep(resp, old) ==
    IF AddedDate(resp) = NullDate THEN old ELSE AddedDate(resp)

ProbeSignal(resp, old) == AddedDate(resp)

\* checkLatestBreach resumes with the answer of its live call and writes to
\* the CacheManager the client holds at that moment; the probes in flight
\* answer in any order, so the one resuming is the one started last or an
\* earlier one
CheckLatestBreachDone(resp) ==
    /\ pending > 0
    /\ pending' = pending - 1
    /\ latestBreachDate' = ProbeSignal(resp, latestBreachDate)
    /\ \/ /\ ~newest.done
          /\ newest' = [done |-> TRUE, outcome |-> AddedDate(resp)]
       \/ /\ pending > (IF newest.done THEN 0 ELSE 1)
          /\ newest' = newest
    /\ ev' = [Idle("checkLatestBreach") EXCEPT !.data = resp,
                                               !.known0 = latestBreachDate]
    /\ UNCHANGED <<impl, enabled, ttl, files, now, lastKnownBreachDate, calls,
                   keyVars, ioVars, upstream, dir, older>>

Next ==
    \/ \E k \in Keys : Request(k, {"ok"})
    \/ \E d \in Domains, forceFresh \in BOOLEAN : Domain(d, forceFresh, {"ok"})
    \/ \E resp \in LiveResponses(LatestKey) : CheckLatestBreachDone(resp)
    \/ ClearCache
    \/ Tick

Spec == Init /\ [][Next]_vars

(***************************************************************************)
(* The same client over a file system whose mkdir and writeFile may fail,  *)
(* together with direct writes to the store.                               *)
(***************************************************************************)
NextFaults ==
    \/ \E k \in Keys : Request(k, WriteOutcomes)
    \/ \E k \in StoreKeys, d \in StoreData, wio \in WriteOutcomes : Set(k, d, wio)
    \/ \E resp \in LiveResponses(LatestKey) : CheckLatestBreachDone(resp)
    \/ Tick

SpecFaults == Init /\ [][NextFaults]_vars

(***************************************************************************)
(* Claims about the client                                                 *)
(***************************************************************************)
\* a completed domain(d, false) whose probe carried a date
ProbedDomain ==
    /\ ev.op = "domain" /\ ~ev.force
    /\ ev.probe.kind = "breach" /\ ev.probe.date # NullDate

\* ... and the tracker already held a date that the probe did not advance
NoAdvance ==
    ProbedDomain /\ ev.known0 # NullDate /\ ev.known0 >= ev.probe.date

\* ... or the probe's date is newer than the tracker's, or nothing was tracked
Advance ==
    ProbedDomain /\ (ev.known0 = NullDate \/ ev.probe.date > ev.known0)

\* C3 as stated: when the probe does not advance the recorded date, an entry
\* stored for breacheddomain/d is returned unchanged and no live
\* breacheddomain request is made.
C3_ShortCircuitAlways ==
    (NoAdvance /\ ev.pre # NullValue)
        => /\ ev.ret = ev.pre
           /\ ev.live = 0

\* C3: when the probe of domain(d, false) does not advance the recorded date,
\* the tracker keeps its date and the call goes through the cache-aware
\* request: if get serves the entry stored for breacheddomain/d (store enabled,
\* entry readable, fresh and with non-null data), that payload is returned, no
\* live breacheddomain request is made and the entry is left as it was;
\* otherwise exactly one live breacheddomain request is made.
C3_ShortCircuit ==
    [][(/\ ev'.op = "domain" /\ ~ev'.force
        /\ ev'.probe.kind = "breach" /\ ev'.probe.date # NullDate
        /\ lastKnownBreachDate # NullDate
        /\ lastKnownBreachDate >= ev'.probe.date)
        => LET cachedData == GetResult(files, ev'.key, "ok")
           IN  /\ lastKnownBreachDate' = lastKnownBreachDate
               /\ cachedData # NullValue
                    => /\ ev'.ret = cachedData
                       /\ ~ev'.raised
                       /\ ev'.live = 0
                       /\ files'[ev'.key] = files[ev'.key]
               /\ cachedData = NullValue => ev'.live = 1]_vars

\* the probe repeats the recorded date and the stored entry is served
C3_Witness ==
    /\ NoAdvance
    /\ ev.probe.date = ev.known0
    /\ ev.pre # NullValue
    /\ ev.ret = ev.pre
    /\ ev.live = 0
    /\ lastKnownBreachDate = ev.known0

\* C4: when the probe of domain(d, false) carries a date newer than the
\* tracker's (or the tracker holds none), the tracker takes the probe's date
\* and one live breacheddomain request is made whatever is stored for d; when
\* that request succeeds its answer is returned and, the store being enabled
\* and the write succeeding, the stored entry for d is the live answer.
C4_ForcedRefresh ==
    Advance
        => /\ lastKnownBreachDate = ev.probe.date
           /\ ev.live = 1
           /\ ~ev.raised => ev.ret = ev.data
           /\ (~ev.raised /\ enabled /\ ev.io = "ok")
                => files[ev.key] = CacheItem(ev.data, now, latestBreachDate)

\* a tracked date, a newer probe, a stored entry replaced by a different
\* live answer
C4_Witness ==
    /\ Advance
    /\ ev.known0 # NullDate
    /\ ev.pre # NullValue
    /\ ev.data \in DomainBodies
    /\ ev.data # ev.pre
    /\ ev.ret = ev.data
    /\ files[ev.key].data = ev.data

\* C5: every stored entry holds a non-null payload: set with null or
\* undefined data writes nothing, on the paths through request() and through
\* the write-back of domain().
C5_EntryInvariant ==
    \A k \in Keys :
        files[k].kind = "json" => files[k].hasData /\ files[k].data # NullValue

\* C8: set does not raise when mkdir or writeFile fails, and a request whose
\* live call answered with a payload returns that payload, without raising,
\* whatever the outcome of the write-back.
C8_WriteFailureSwallowed ==
    /\ ev.op = "set" => ~ev.raised
    /\ (/\ ev.op = "request"
        /\ ev.live = 1
        /\ ev.data \notin {NullValue, ErrorResponse})
            => ~ev.raised /\ ev.ret = ev.data

\* an enabled store, a live payload, a failed write-back, the payload returned
C8_Witness ==
    /\ ev.op = "request"
    /\ enabled
    /\ ev.live = 1
    /\ ev.io # "ok"
    /\ ev.data \notin {NullValue, ErrorResponse}
    /\ ev.ret = ev.data
    /\ ~ev.raised

\* C14: in domain(d, false), when the probe rejects or returns nothing (null,
\* or a record without AddedDate), the call makes the live breacheddomain
\* request and returns its answer; it does not fail because of the probe.
C14_ProbeFailOpen ==
    (/\ ev.op = "domain" /\ ~ev.force
     /\ (ev.probe = ErrorResponse
         \/ (ev.probe # NoProbe /\ AddedDate(ev.probe) = NullDate)))
        => /\ ev.live = 1
           /\ ev.data # ErrorResponse => (~ev.raised /\ ev.ret = ev.data)

\* C15: domain(d, true) makes no probe and no cache read: the tracker and the
\* latestbreach entry are left alone and exactly one live breacheddomain
\* request is made, whatever is stored for d; when that request does not
\* reject its answer is returned and, the store being enabled and the write
\* succeeding, the stored entry for d is that answer.
C15_ForceFresh ==
    [][(ev'.op = "domain" /\ ev'.force)
        => /\ ev'.probe = NoProbe
           /\ lastKnownBreachDate' = lastKnownBreachDate
           /\ files'[LatestKey] = files[LatestKey]
           /\ ev'.live = 1
           /\ ev'.raised <=> ev'.data = ErrorResponse
           /\ ev'.ret = ev'.data
           /\ ev'.raised => files' = files
           /\ (~ev'.raised /\ enabled /\ ev'.io = "ok")
                => files'[ev'.key] = CacheItem(ev'.data, now, latestBreachDate)]_vars

\* a fresh entry is stored for d and the forced call replaces it
C15_Witness ==
    /\ ev.op = "domain" /\ ev.force
    /\ ev.pre # NullValue
    /\ ev.data \in DomainBodies
    /\ ev.data # ev.pre
    /\ ev.ret = ev.data
    /\ files[ev.key].data = ev.data
    /\ files[ev.key].timestamp = now

\* C16: request returns the payload get serves and then makes no live call
\* and changes nothing; otherwise it makes exactly one live call, and a
\* non-null answer is (the store being enabled and the write succeeding)
\* stored under the same key, so that get serves it while the signal and the
\* clock stay as they are.
C16_ReadThrough ==
    [][ev'.op = "request"
        => LET cachedData == GetResult(files, ev'.key, "ok")
           IN  /\ cachedData # NullValue
                    => /\ ev'.ret = cachedData
                       /\ ~ev'.raised
                       /\ ev'.live = 0
                       /\ files' = files
               /\ cachedData = NullValue
                    => /\ ev'.live = 1
                       /\ (/\ ev'.data \notin {NullValue, ErrorResponse}
                           /\ enabled /\ ev'.io = "ok")
                            => GetResult(files', ev'.key, "ok") = ev'.data]_vars

\* a request served from the entry an earlier call stored
C16_Witness ==
    /\ ev.op = "request"
    /\ calls = MaxCalls
    /\ ev.live = 0
    /\ ev.pre # NullValue
    /\ ev.ret = ev.pre
    /\ files[ev.key].timestamp = now

C18_NotFoundNotCached ==
    [][(ev'.op = "request" /\ ev'.live = 1 /\ ev'.data = NullValue)
        => /\ ev'.ret = NullValue
           /\ ~ev'.raised
           /\ files' = files
           /\ GetResult(files', ev'.key, "ok") = NullValue]_vars

\* the second call of a run is a not-found request on an enabled store that
\* still holds nothing
C18_Witness ==
    /\ ev.op = "request"
    /\ enabled
    /\ calls = MaxCalls
    /\ ev.live = 1
    /\ ev.data = NullValue
    /\ ev.ret = NullValue
    /\ ~ev.raised
    /\ \A k \in Keys : files[k] = NoFile

(***************************************************************************)
(* The client under reconfiguration: configureCaching calls, the           *)
(* background probes they and the constructor started, requests that       *)
(* write entries, and the clock.                                           *)
(***************************************************************************)
NextConfig ==
    \/ \E e \in BOOLEAN, t \in TtlValues : ConfigureCaching(e, t)
    \/ \E resp \in LiveResponses(LatestKey) : CheckLatestBreachDone(resp)
    \/ \E k \in Keys : Request(k, {"ok"})
    \/ Tick

SpecConfig == Init /\ [][NextConfig]_vars

\* C22: the signal is absent when the store is constructed (by the
\* constructor or by configureCaching); after a probe that raised an error or
\* returned no record or no AddedDate it is absent, whatever it was before;
\* it becomes present only by a probe that returned an AddedDate, and then
\* equals that date.
C22_SignalFailSafe ==
    /\ latestBreachDate = NullDate
    /\ [][/\ ev'.op = "configureCaching" => latestBreachDate' = NullDate
          /\ ev'.op = "checkLatestBreach" =>
                latestBreachDate' = AddedDate(ev'.data)
          /\ (latestBreachDate' # NullDate
                /\ latestBreachDate' # latestBreachDate) =>
                /\ ev'.op = "checkLatestBreach"
                /\ ev'.data.kind = "breach"
                /\ latestBreachDate' = ev'.data.date]_vars

\* a probe failed or came back without a date while the signal was present
C22_Witness ==
    /\ ev.op = "checkLatestBreach"
    /\ ev.known0 # NullDate
    /\ AddedDate(ev.data) = NullDate
    /\ latestBreachDate = NullDate

\* C25: configureCaching leaves the client with a store whose signal is
\* absent, the signal stays absent until the probe started by that
\* reconfiguration (the one started last) has completed, and entries written
\* in between carry no freshness tag.
C25_ReconfigurationDiscards ==
    [][/\ ev'.op = "configureCaching" => latestBreachDate' = NullDate
       /\ ~newest'.done => latestBreachDate' = NullDate
       /\ (/\ ~newest.done
           /\ ev'.op = "request"
           /\ files'[ev'.key] # files[ev'.key]
           /\ WellFormed(files'[ev'.key])) =>
                files'[ev'.key].tag = NullDate]_vars

\* C29: once every background probe has completed, the signal of the store
\* in use is the outcome of the probe started last.
C29_NewestProbeWins ==
    pending = 0 => latestBreachDate = newest.outcome

\* C28: lastKnownBreachDate never decreases and is never reset to absent; it
\* changes only in a domain call without forceFresh whose probe returned an
\* AddedDate greater than the recorded one (or when none was recorded), and
\* then becomes that date; forced calls and failed or empty probes leave it
\* unchanged.
C28_TrackerMonotone ==
    [][/\ lastKnownBreachDate # NullDate =>
            /\ lastKnownBreachDate' # NullDate
            /\ lastKnownBreachDate' >= lastKnownBreachDate
       /\ lastKnownBreachDate' # lastKnownBreachDate =>
            /\ ev'.op = "domain" /\ ~ev'.force
            /\ ev'.probe.kind = "breach" /\ ev'.probe.date # NullDate
            /\ lastKnownBreachDate = NullDate
                  \/ ev'.probe.date > lastKnownBreachDate
            /\ lastKnownBreachDate' = ev'.probe.date
       /\ (ev'.op = "domain" /\ (ev'.force \/ AddedDate(ev'.probe) = NullDate))
            => lastKnownBreachDate' = lastKnownBreachDate]_vars

\* a probe reported a date older than the recorded one, which was kept
C28_Witness ==
    /\ ev.op = "domain" /\ ~ev.force
    /\ ev.known0 # NullDate
    /\ ev.probe.kind = "breach" /\ ev.probe.date # NullDate
    /\ ev.probe.date < ev.known0
    /\ lastKnownBreachDate = ev.known0

\* the last call was domain(d) on the fresh path, it returned a value other
\* than null and the entry of d holds that value
Refreshed ==
    /\ ev.op = "domain" /\ ~ev.raised /\ ev.live = 1
    /\ ev.force \/ Advance
    /\ ev.ret # NullValue
    /\ WellFormed(files[ev.key]) /\ files[ev.key].data = ev.ret

\* the step is the next domain(d, false) call, its probe reports a date (the
\* one the refreshing call's probe reported, when that call made a probe),
\* and the signal and the clock are as they were
Repeated ==
    /\ ev'.op = "domain" /\ ev'.key = ev.key /\ ~ev'.force
    /\ ev'.probe.kind = "breach" /\ ev'.probe.date # NullDate
    /\ ev.force \/ ev'.probe.date = ev.probe.date
    /\ latestBreachDate' = latestBreachDate /\ now' = now

\* C30 as stated: after a domain(d) call that took the fresh path (forced, or
\* a newly detected breach) and stored a result other than null, the next
\* domain(d, false) call whose probe reports the same date, with signal and
\* clock unchanged, makes no live breacheddomain request and returns the
\* stored result.
C30_RefreshReusedAlways ==
    [][(Refreshed /\ Repeated) =>
            (ev'.live = 0 /\ ~ev'.raised /\ ev'.ret = ev.ret)]_vars

\* C30, amended: the same, when the tracker holds a date that is not older
\* than the one the probe reports; this is so after a newly detected breach,
\* and after a forced call only if an earlier call recorded such a date (a
\* forced call records nothing).
C30_RefreshReused ==
    [][(/\ Refreshed /\ Repeated
        /\ lastKnownBreachDate # NullDate
        /\ lastKnownBreachDate >= ev'.probe.date) =>
            (ev'.live = 0 /\ ~ev'.raised /\ ev'.ret = ev.ret)]_vars

\* the second of two calls reused what the first, which detected a breach,
\* had stored
C30_Witness ==
    /\ ev.op = "domain" /\ ~ev.force /\ ~ev.raised
    /\ calls = MaxCalls
    /\ ev.known0 # NullDate /\ ev.probe.date = ev.known0
    /\ ev.live = 0
    /\ ev.pre # NullValue /\ ev.ret = ev.pre

(***************************************************************************)
(* The directory resolver on its own: cachedir is called with every        *)
(* platform, environment and id of the sets above.                         *)
(***************************************************************************)
Cachedir(platform, xdgCacheHome, localAppData, home, id) ==
    LET r == cachedir(platform, xdgCacheHome, localAppData, home, id)
    IN  /\ dir' = [platform |-> platform, home |-> home,
                   localAppData |-> localAppData,
                   xdgCacheHome |-> xdgCacheHome, id |-> id,
                   path |-> r.path, raised |-> r.raised]
        /\ UNCHANGED <<storeVars, keyVars, ioVars, newest, upstream, older>>

NextDir ==
    \E platform \in Platforms, xdgCacheHome \in EnvValues,
       localAppData \in EnvValues, home \in Homes, id \in Ids :
        Cachedir(platform, xdgCacheHome, localAppData, home, id)

\* the resolver reads nothing of the store, which stays as constructed
InitDir == InitStore /\ impl = "A" /\ enabled /\ ttl = NoTtl

SpecDir == InitDir /\ [][NextDir]_vars

\* a cachedir call has been made and returned a path
Resolved == dir.platform # "-" /\ ~dir.raised

IsSet(env) == env.set
IsSetNonEmpty(env) == env.set /\ env.value # <<>>

\* the directory the claim gives; emptyIsUnset tells whether a variable set
\* to the empty string counts as unset
Expected(emptyIsUnset) ==
    LET isSet(env) == IF emptyIsUnset THEN IsSetNonEmpty(env) ELSE IsSet(env)
    IN  IF dir.platform = "darwin"
        THEN dir.home \o <<"Library", "Caches", dir.id>>
        ELSE IF dir.platform = "win32"
        THEN (IF isSet(dir.localAppData)
              THEN dir.localAppData.value \o <<dir.id, "Cache">>
              ELSE dir.home \o <<"AppData", "Local", dir.id, "Cache">>)
        ELSE (IF isSet(dir.xdgCacheHome)
              THEN dir.xdgCacheHome.value \o <<dir.id>>
              ELSE dir.home \o <<".cache", dir.id>>)

\* C23 as stated: the directory is <home>/Library/Caches/<id> on darwin; on
\* win32 <LOCALAPPDATA>/<id>/Cache if LOCALAPPDATA is set, else
\* <home>/AppData/Local/<id>/Cache; on every other platform
\* <XDG_CACHE_HOME>/<id> if XDG_CACHE_HOME is set, else <home>/.cache/<id>.
C23_DirectoryAlways == Resolved => dir.path = Expected(FALSE)

\* C23, amended: the same for an id that passes the validation, a variable
\* counting as set when it is set to a value other than the empty string;
\* cachedir throws for an id that is empty or holds a character other than
\* a letter, a digit or "-".
C23_Directory ==
    /\ Resolved => dir.path = Expected(TRUE)
    /\ dir.platform # "-" => (dir.raised <=> InvalidId(dir.id))

\* an unrecognized platform with XDG_CACHE_HOME set: <XDG_CACHE_HOME>/<id>
C23_Witness ==
    /\ Resolved
    /\ dir.platform = "haiku"
    /\ dir.xdgCacheHome = SetTo(<<"/", "x">>)
    /\ dir.id = "myapp"
    /\ dir.path = <<"/", "x", "myapp">>

(***************************************************************************)
(* One Breached instance queried for two domains.  older records the       *)
(* domain keys whose entry was written before the tracker took its         *)
(* present date: when a call changes lastKnownBreachDate every entry       *)
(* stored so far becomes older, and the entry a call writes (after the     *)
(* assignment, when its live request did not reject) is not.               *)
(***************************************************************************)
\* the call that made the step wrote the entry of its key
Wrote ==
    /\ enabled /\ ev'.live = 1 /\ ~ev'.raised
    /\ \/ ev'.force
       \/ AddedDate(ev'.probe) = NullDate
       \/ lastKnownBreachDate' # lastKnownBreachDate
       \/ ev'.ret # NullValue

TrackedDomain(d, forceFresh) ==
    /\ calls < MaxTracked
    /\ calls' = calls + 1
    /\ DomainStep(d, forceFresh, {"ok"})
    /\ LET stored == {k \in AllKeys \ {LatestKey} : files[k].kind # "none"}
           before == IF lastKnownBreachDate' # lastKnownBreachDate
                     THEN stored ELSE older
       IN  older' = IF Wrote THEN before \ {DomainKey(d)} ELSE before

NextTracker ==
    \/ \E d \in AllDomains, forceFresh \in BOOLEAN : TrackedDomain(d, forceFresh)
    \/ \E resp \in LiveResponses(LatestKey) : CheckLatestBreachDone(resp)
    \/ Tick

SpecTracker == Init /\ [][NextTracker]_vars

\* C26: a domain(d, false) call never returns a cached breacheddomain/d entry
\* that was written before the tracker observed its current
\* lastKnownBreachDate, also when the newer breach was detected by a query
\* for another domain.
C26_NoStaleDomainResult ==
    (/\ ev.op = "domain" /\ ~ev.force
     /\ ~ev.raised /\ ev.live = 0)
        => ev.key \notin older

(***************************************************************************)
(* The upstream latest-breach record advances while domain(d) is called    *)
(* again and again.  upstream is the AddedDate a live latestbreach request *)
(* is answered with; the probe of domain() goes through request(), so it   *)
(* is answered from the store while get serves the latestbreach entry.     *)
(* The run is that of copy part_002/part_003 with the store enabled and no *)
(* ttl, where no rule of the store depends on the clock.  The number of    *)
(* calls is not bounded.                                                   *)
(***************************************************************************)
InitLive ==
    /\ impl = "A"
    /\ enabled = TRUE
    /\ ttl = NoTtl
    /\ latestBreachDate = NullDate
    /\ files = [k \in AllKeys |-> NoFile]
    /\ now = 0
    /\ lastKnownBreachDate = NullDate
    /\ pending = 0
    /\ newest = NoNewest
    /\ calls = 0
    /\ ev = InitEv
    /\ InitReq0
    /\ upstream = 1
    /\ dir = NoDir
    /\ older = {}

\* what breach.latest() resolves to: the cached record, else the upstream's
ProbeAnswer ==
    LET cached == GetResult(files, LatestKey, "ok")
    IN  IF cached # NullValue THEN cached ELSE BreachModel(upstream)

LiveDomain(d, forceFresh) ==
    /\ DomainStep(d, forceFresh, {"ok"})
    /\ ~forceFresh => ev'.probe = ProbeAnswer
    /\ UNCHANGED <<calls, older>>

\* a newer breach is added upstream
Publish ==
    /\ upstream < MaxDate
    /\ upstream' = upstream + 1
    /\ UNCHANGED <<storeVars, keyVars, ioVars, newest, dir, older>>

NextLive ==
    \/ \E d \in Domains, forceFresh \in BOOLEAN : LiveDomain(d, forceFresh)
    \/ Publish
    \/ Tick

\* domain(d, false) is called again and again
SpecLive ==
    /\ InitLive
    /\ [][NextLive]_vars
    /\ WF_vars(\E d \in Domains : LiveDomain(d, FALSE))

\* C27: if the upstream AddedDate has advanced to a date newer than
\* lastKnownBreachDate and stays there, then among the repeated
\* domain(d, false) calls one eventually finds that date with its probe,
\* takes the fresh path and makes a live breacheddomain request.
C27_AdvanceDetected ==
    \A D \in Dates :
        (upstream = D /\ lastKnownBreachDate < D)
            ~> \/ upstream # D
               \/ /\ ev.op = "domain" /\ ~ev.force
                  /\ ev.probe = BreachModel(D)
                  /\ ev.live = 1

(***************************************************************************)
(* Concurrent calls on one entry file.  set awaits mkdir and then          *)
(* writeFile(filePath, JSON.stringify(cacheItem)), which opens the file    *)
(* with flag 'w' (the file is truncated at once), writes the document from *)
(* its own file position in one or more write calls and closes it; get     *)
(* awaits readFile, which opens the file and reads until end of file in    *)
(* one or more read calls, and then JSON.parse.  Every await is a point    *)
(* where another call runs.  Nothing in set or get locks the file or       *)
(* writes to a temporary name, so the calls race on the file; the outcome  *)
(* is any interleaving of their system calls.  The documents are taken of  *)
(* equal length, MaxChunks system calls each, and alike in structure (the  *)
(* same endpoint, payloads that differ in values), so that a sequence of   *)
(* parts 1..MaxChunks taken from different documents parses as JSON.       *)
(*   disk    : exists, and the chunks in the file                          *)
(*   writers : per set call, pc (idle, mkdir, open, write, done) and the   *)
(*             file position; call w writes Document(w)                    *)
(*   reader  : pc (idle, read, done), file position, chunks read, result   *)
(* Document(0) is the entry stored before the calls.                       *)
(***************************************************************************)
Absent == <<>>

\* the payload of the document whose chunks are bytes: which document each
\* part came from
Payload(bytes) == [p \in 1..Len(bytes) |-> bytes[p].doc]

Whole(doc) == Payload(Document(doc))

\* JSON.parse of what was read, then return cacheItem.data (the metadata is
\* fresh); a SyntaxError is caught and becomes null
ParseResult(buf) ==
    IF Len(buf) = MaxChunks /\ \A p \in 1..MaxChunks : buf[p].part = p
    THEN Payload(buf)
    ELSE Absent

\* write(fd, chunk) at file position pos
WriteAt(bytes, pos, c) ==
    IF pos <= Len(bytes) THEN [bytes EXCEPT ![pos] = c]
    ELSE bytes \o [i \in 1..(pos - Len(bytes) - 1) |-> Hole] \o <<c>>

InitConc ==
    /\ impl \in {"A", "B"}
    /\ enabled = TRUE
    /\ ttl = NoTtl
    /\ latestBreachDate = NullDate
    /\ files = [k \in AllKeys |-> NoFile]
    /\ now = 0
    /\ lastKnownBreachDate = NullDate
    /\ pending = 0
    /\ calls = 0
    /\ ev = InitEv
    /\ reqA = [endpoint |-> <<"e">>, params |-> NoParams]
    /\ reqB = [endpoint |-> <<"e">>, params |-> NoParams]
    /\ keyA = NoKey
    /\ keyB = NoKey
    /\ disk \in {NoDisk, [exists |-> TRUE, bytes |-> Document(0)]}
    /\ writers = [w \in Writers |-> IdleWriter]
    /\ reader = IdleReader
    /\ newest = NoNewest
    /\ InitExt0

\* set is called: the key and the path are computed, mkdir is awaited
SetCall(w) ==
    /\ writers[w].pc = "idle"
    /\ writers' = [writers EXCEPT ![w].pc = "mkdir"]
    /\ UNCHANGED <<storeVars, keyVars, extVars, disk, reader>>

\* mkdir resolves; the cache item is built and writeFile is called
SetMkdir(w) ==
    /\ writers[w].pc = "mkdir"
    /\ writers' = [writers EXCEPT ![w].pc = "open"]
    /\ UNCHANGED <<storeVars, keyVars, extVars, disk, reader>>

\* writeFile: open(filePath, 'w') creates or truncates the file
SetOpen(w) ==
    /\ writers[w].pc = "open"
    /\ disk' = [exists |-> TRUE, bytes |-> <<>>]
    /\ writers' = [writers EXCEPT ![w] = [pc |-> "write", pos |-> 1]]
    /\ UNCHANGED <<storeVars, keyVars, extVars, reader>>

\* writeFile: one write call; after the last one the file is closed
SetWrite(w) ==
    /\ writers[w].pc = "write"
    /\ disk' = [disk EXCEPT
                  !.bytes = WriteAt(@, writers[w].pos, Chunk(w, writers[w].pos))]
    /\ writers' = [writers EXCEPT ![w] =
                     IF writers[w].pos = MaxChunks
                     THEN [pc |-> "done", pos |-> 1]
                     ELSE [pc |-> "write", pos |-> writers[w].pos + 1]]
    /\ UNCHANGED <<storeVars, keyVars, extVars, reader>>

\* get is called: stat/open reject when there is no file, and get returns null
GetOpen ==
    /\ reader.pc = "idle"
    /\ reader' = IF disk.exists
                 THEN [reader EXCEPT !.pc = "read"]
                 ELSE [reader EXCEPT !.pc = "done", !.ret = Absent]
    /\ UNCHANGED <<storeVars, keyVars, extVars, disk, writers>>

\* readFile: one read call; at end of file the content is parsed
GetRead ==
    /\ reader.pc = "read"
    /\ reader' = IF reader.pos <= Len(disk.bytes)
                 THEN [reader EXCEPT !.pos = @ + 1,
                                     !.buf = Append(@, disk.bytes[reader.pos])]
                 ELSE [reader EXCEPT !.pc = "done",
                                     !.ret = ParseResult(reader.buf)]
    /\ UNCHANGED <<storeVars, keyVars, extVars, disk, writers>>

NextConc ==
    \/ \E w \in Writers : SetCall(w)
    \/ \E w \in Writers : SetMkdir(w)
    \/ \E w \in Writers : SetOpen(w)
    \/ \E w \in Writers : SetWrite(w)
    \/ GetOpen
    \/ GetRead

SpecConc == InitConc /\ [][NextConc]_vars

\* C19: when two concurrent set calls for one key have both completed, the
\* file holds one of their two documents in whole, never a mixture or a
\* truncation.
C19_ConcurrentWriters ==
    (\A w \in Writers : writers[w].pc = "done")
        => \E w \in Writers : disk.bytes = Document(w)

\* C20: a get that runs concurrently with one set for the same key returns
\* absent, the payload stored before, or the payload being written, in whole.
C20_NoPartialRead ==
    (/\ reader.pc = "done"
     /\ writers[2].pc = "idle")
        => reader.ret \in {Absent, Whole(0), Whole(1)}

====
